---- MODULE Spec2Model ----
(***************************************************************************)
(* Model of pywars.py: three sequential extraction blocks (people,         *)
(* planets, species) that page through a listing API, build flat rows,     *)
(* scrub sentinel cells and write a CSV file each, together with the       *)
(* helper functions extract_id, get_data, calculate_age, remove_unkown     *)
(* and process_mass.                                                       *)
(*                                                                         *)
(* Python values are tagged records: t is the type, s the characters of a  *)
(* str (one-character strings), n the value of an int, l the items of a    *)
(* list.  An exception leaving a function is the value whose tag is the    *)
(* exception's name.                                                       *)
(***************************************************************************)
EXTENDS Integers, Sequences, FiniteSets, TLC

VARIABLES block, pc, api_url, ident, rows_data, served, requests, files, printed, error, arg, ret

vars == <<block, pc, api_url, ident, rows_data, served, requests, files, printed, error, arg, ret>>

fnvars == <<arg, ret>>

(* ---------------------------------------------------------------- bounds *)

\* pages a listing may have
MaxPages == 2

\* records a listing may hold over all its pages
MaxRows == 2

\* length of the strings handed to extract_id
MaxUrlLen == 4

\* length of the numeric prefix of the tokens handed to calculate_age
MaxPrefixLen == 2

\* length of the strings handed to process_mass
MaxMassLen == 3

\* number of rows handed to remove_unkown on its own
MaxScrubRows == 2

(* ---------------------------------------------------------- Python values *)

None == [t |-> "none", s |-> <<>>, n |-> 0, l |-> <<>>]

Str(cs) == [t |-> "str", s |-> cs, n |-> 0, l |-> <<>>]

IntV(k) == [t |-> "int", s |-> <<>>, n |-> k, l |-> <<>>]

List(xs) == [t |-> "list", s |-> <<>>, n |-> 0, l |-> xs]

\* a key the parsed JSON object does not have
Missing == [t |-> "missing", s |-> <<>>, n |-> 0, l |-> <<>>]

AttributeError == [t |-> "AttributeError", s |-> <<>>, n |-> 0, l |-> <<>>]

KeyError == [t |-> "KeyError", s |-> <<>>, n |-> 0, l |-> <<>>]

ValueError == [t |-> "ValueError", s |-> <<>>, n |-> 0, l |-> <<>>]

IsRaise(v) == v.t \in {"AttributeError", "KeyError", "ValueError"}

\* Python truthiness: None, "", 0 and [] are false
Truthy(v) ==
    CASE v.t = "none" -> FALSE
      [] v.t = "str" -> v.s # <<>>
      [] v.t = "int" -> v.n # 0
      [] v.t = "list" -> v.l # <<>>
      [] OTHER -> TRUE

Digits == {"0", "1", "2", "3", "4", "5", "6", "7", "8", "9"}

DigitVal == [c \in Digits |->
    CASE c = "0" -> 0 [] c = "1" -> 1 [] c = "2" -> 2 [] c = "3" -> 3 [] c = "4" -> 4
      [] c = "5" -> 5 [] c = "6" -> 6 [] c = "7" -> 7 [] c = "8" -> 8 [] c = "9" -> 9]

DigitChar == [d \in 0..9 |-> CHOOSE c \in Digits : DigitVal[c] = d]

Whitespace == {" ", "\t", "\n"}

\* str.strip(): whitespace removed at both ends
RECURSIVE LStrip(_)
LStrip(cs) == IF cs # <<>> /\ Head(cs) \in Whitespace THEN LStrip(Tail(cs)) ELSE cs

RECURSIVE RStrip(_)
RStrip(cs) ==
    IF cs # <<>> /\ cs[Len(cs)] \in Whitespace THEN RStrip(SubSeq(cs, 1, Len(cs) - 1)) ELSE cs

Strip(cs) == RStrip(LStrip(cs))

UpperToLower == [c \in {"A", "B", "Y", "U", "N", "K", "O", "W"} |->
    CASE c = "A" -> "a" [] c = "B" -> "b" [] c = "Y" -> "y" [] c = "U" -> "u"
      [] c = "N" -> "n" [] c = "K" -> "k" [] c = "O" -> "o" [] c = "W" -> "w"]

\* str.lower()
Lower(cs) == [i \in 1..Len(cs) |-> IF cs[i] \in DOMAIN UpperToLower THEN UpperToLower[cs[i]] ELSE cs[i]]

\* str.endswith(suffix)
EndsWith(cs, suffix) ==
    /\ Len(cs) >= Len(suffix)
    /\ SubSeq(cs, Len(cs) - Len(suffix) + 1, Len(cs)) = suffix

\* value of a run of decimal digits and underscores, the underscores ignored
RECURSIVE DigitsValue(_)
DigitsValue(cs) ==
    IF cs = <<>> THEN 0
    ELSE IF cs[Len(cs)] = "_" THEN DigitsValue(SubSeq(cs, 1, Len(cs) - 1))
    ELSE 10 * DigitsValue(SubSeq(cs, 1, Len(cs) - 1)) + DigitVal[cs[Len(cs)]]

\* int(str): surrounding whitespace, an optional sign, decimal digits with single
\* underscores between them; anything else is a ValueError (ok = FALSE)
ParseInt(cs) ==
    LET body == Strip(cs)
        signed == body # <<>> /\ body[1] \in {"+", "-"}
        mag == IF signed THEN Tail(body) ELSE body
        wellformed ==
            /\ mag # <<>>
            /\ \A i \in 1..Len(mag) : mag[i] \in Digits \cup {"_"}
            /\ mag[1] # "_"
            /\ mag[Len(mag)] # "_"
            /\ \A i \in 1..(Len(mag) - 1) : ~(mag[i] = "_" /\ mag[i + 1] = "_")
    IN  IF ~wellformed THEN [ok |-> FALSE, v |-> 0]
        ELSE [ok |-> TRUE, v |-> IF signed /\ body[1] = "-" THEN 0 - DigitsValue(mag) ELSE DigitsValue(mag)]

\* str(int), as csv.writer formats an integer cell
RECURSIVE NatToStr(_)
NatToStr(k) == IF k < 10 THEN <<DigitChar[k]>> ELSE Append(NatToStr(k \div 10), DigitChar[k % 10])

IntToStr(k) == IF k < 0 THEN <<"-">> \o NatToStr(0 - k) ELSE NatToStr(k)

(* ------------------------------------------------------------ extract_id *)

\* the end of the maximal digit run of cs that starts at position i
RECURSIVE DigitRunEnd(_, _)
DigitRunEnd(cs, i) == IF i <= Len(cs) /\ cs[i] \in Digits THEN DigitRunEnd(cs, i + 1) ELSE i

\* the pattern /(\d+)/$ tried at position i: "$" is the end of the string or the
\* place before a final newline
MatchesAt(cs, i) ==
    LET j == DigitRunEnd(cs, i + 1)
    IN  /\ cs[i] = "/"
        /\ j > i + 1
        /\ j <= Len(cs)
        /\ cs[j] = "/"
        /\ \/ j = Len(cs)
           \/ j = Len(cs) - 1 /\ cs[Len(cs)] = "\n"

\* re.search: the leftmost position the pattern matches at, 0 for no match
SearchPos(cs) ==
    LET hits == {i \in 1..Len(cs) : MatchesAt(cs, i)}
    IN  IF hits = {} THEN 0 ELSE CHOOSE i \in hits : \A k \in hits : i <= k

\* extract_id reading the last item of a list instead of the first
extract_id_last_item(url_or_list) ==
    IF url_or_list.t = "list" /\ url_or_list.l = <<>> THEN None
    ELSE LET url == IF url_or_list.t = "list" THEN url_or_list.l[Len(url_or_list.l)] ELSE url_or_list
         IN  IF ~Truthy(url) THEN None
             ELSE IF url.t # "str" THEN AttributeError
             ELSE LET stripped == Strip(url.s)
                      at == SearchPos(stripped)
                  IN  IF at = 0 THEN None
                      ELSE IntV(ParseInt(SubSeq(stripped, at + 1, DigitRunEnd(stripped, at + 1) - 1)).v)

extract_id(url_or_list) ==
    IF url_or_list.t = "list" /\ url_or_list.l = <<>> THEN None
    ELSE LET url == IF url_or_list.t = "list" THEN url_or_list.l[1] ELSE url_or_list
         IN  IF ~Truthy(url) THEN None
             ELSE IF url.t # "str" THEN AttributeError
             ELSE LET stripped == Strip(url.s)
                      at == SearchPos(stripped)
                  IN  IF at = 0 THEN None
                      ELSE IntV(ParseInt(SubSeq(stripped, at + 1, DigitRunEnd(stripped, at + 1) - 1)).v)

(* --------------------------------------------------------- calculate_age *)

reference_year == 34

unknown == <<"u", "n", "k", "n", "o", "w", "n">>

BBY == <<"B", "B", "Y">>

ABY == <<"A", "B", "Y">>

\* calculate_age without the except clause: the ValueError of int() leaves it
calculate_age_uncaught(birth_year) ==
    IF ~Truthy(birth_year) THEN None
    ELSE IF birth_year.t # "str" THEN AttributeError
    ELSE IF Lower(birth_year.s) = unknown THEN None
    ELSE LET parsed == ParseInt(SubSeq(birth_year.s, 1, Len(birth_year.s) - 3))
         IN  IF EndsWith(birth_year.s, BBY)
                 THEN IF parsed.ok THEN IntV(reference_year + parsed.v) ELSE ValueError
             ELSE IF EndsWith(birth_year.s, ABY)
                 THEN IF parsed.ok THEN IntV(reference_year - parsed.v) ELSE ValueError
             ELSE None

calculate_age(birth_year) ==
    IF ~Truthy(birth_year) THEN None
    ELSE IF birth_year.t # "str" THEN AttributeError
    ELSE IF Lower(birth_year.s) = unknown THEN None
    ELSE LET parsed == ParseInt(SubSeq(birth_year.s, 1, Len(birth_year.s) - 3))
         IN  IF EndsWith(birth_year.s, BBY)
                 THEN IF parsed.ok THEN IntV(reference_year + parsed.v) ELSE None
             ELSE IF EndsWith(birth_year.s, ABY)
                 THEN IF parsed.ok THEN IntV(reference_year - parsed.v) ELSE None
             ELSE None

(* --------------------------------------------------------- remove_unkown *)

Sentinels == {Str(unknown), Str(<<"n", "o", "n", "e">>), Str(<<"n", "/", "a">>)}

\* remove_unkown comparing without regard to case
remove_unkown_caseless(data) ==
    [r \in 1..Len(data) |->
        [i \in 1..Len(data[r]) |->
            IF data[r][i].t = "str" /\ Str(Lower(data[r][i].s)) \in Sentinels THEN None ELSE data[r][i]]]

\* remove_unkown left out
remove_unkown_skipped(data) == data

remove_unkown(data) ==
    [r \in 1..Len(data) |->
        [i \in 1..Len(data[r]) |-> IF data[r][i] \in Sentinels THEN None ELSE data[r][i]]]

(* ---------------------------------------------------------- process_mass *)

\* process_mass replacing the first comma only
process_mass_first_comma(mass) ==
    IF mass \in Sentinels THEN mass
    ELSE IF mass.t # "str" THEN AttributeError
    ELSE Str([i \in 1..Len(mass.s) |->
            IF mass.s[i] = "," /\ \A k \in 1..(i - 1) : mass.s[k] # "," THEN "." ELSE mass.s[i]])

process_mass(mass) ==
    IF mass \in Sentinels THEN mass
    ELSE IF mass.t # "str" THEN AttributeError
    ELSE Str([i \in 1..Len(mass.s) |-> IF mass.s[i] = "," THEN "." ELSE mass.s[i]])

(* ------------------------------------------------- the upstream listings *)

\* a listing URL: the page's number stands for its address
PageUrl(p) == Str(<<"p", DigitChar[p]>>)

\* api_url_people, api_url_planets, api_url_species as first assigned
api_url_start == [k \in 1..3 |-> PageUrl(1)]

Notice == <<"CSV file created: people.csv", "CSV file created: planets.csv",
            "CSV file created: species.csv">>

Header == <<
    <<<<"n", "a", "m", "e">>,
      <<"a", "g", "e">>,
      <<"e", "y", "e", "_", "c", "o", "l", "o", "r">>,
      <<"g", "e", "n", "d", "e", "r">>,
      <<"h", "e", "i", "g", "h", "t">>,
      <<"m", "a", "s", "s">>,
      <<"h", "o", "m", "e", "w", "o", "r", "l", "d", "_", "i", "d">>,
      <<"s", "p", "e", "c", "i", "e", "s", "_", "i", "d">>>>,
    <<<<"i", "d">>,
      <<"n", "a", "m", "e">>,
      <<"d", "i", "a", "m", "e", "t", "e", "r">>,
      <<"r", "o", "t", "a", "t", "i", "o", "n", "_", "p", "e", "r", "i", "o", "d">>,
      <<"p", "o", "p", "u", "l", "a", "t", "i", "o", "n">>,
      <<"s", "u", "r", "f", "a", "c", "e", "_", "w", "a", "t", "e", "r">>>>,
    <<<<"i", "d">>,
      <<"n", "a", "m", "e">>,
      <<"c", "l", "a", "s", "s", "i", "f", "i", "c", "a", "t", "i", "o", "n">>,
      <<"d", "e", "s", "i", "g", "n", "a", "t", "i", "o", "n">>,
      <<"a", "v", "e", "r", "a", "g", "e", "_", "h", "e", "i", "g", "h", "t">>,
      <<"a", "v", "e", "r", "a", "g", "e", "_", "l", "i", "f", "e", "s", "p", "a", "n">>>>>>

\* resource objects the upstream may return
PeopleRecords == {
    [name |-> Str(<<"L">>), birth_year |-> Str(<<"1", "9", "B", "B", "Y">>),
     eye_color |-> Str(<<"U", "n", "k", "n", "o", "w", "n">>), gender |-> Str(<<"m">>),
     height |-> Str(<<"1", "7", "2">>), mass |-> Str(<<"8", "4", ",", "5">>),
     homeworld |-> Str(<<"x", "/", "1", "/">>),
     species |-> List(<<Str(<<"x", "/", "2", "/">>), Str(<<"x", "/", "3", "/">>)>>)],
    [name |-> Str(<<"R">>), birth_year |-> Str(unknown),
     eye_color |-> Str(<<"n", "o", "n", "e">>), gender |-> Str(<<"n", "/", "a">>),
     height |-> Str(unknown), mass |-> Str(unknown),
     homeworld |-> Str(<<"x", "/">>), species |-> List(<<>>)]}

\* resource objects the row builders fail on: a null mass, a missing key
MalformedPeople == {
    [name |-> Str(<<"J">>), birth_year |-> Str(<<"4", "1", "A", "B", "Y">>),
     eye_color |-> Str(<<"b">>), gender |-> Str(<<"f">>),
     height |-> Str(<<"9">>), mass |-> None,
     homeworld |-> Str(<<"x", "/", "2", "/">>), species |-> List(<<>>)]}

PlanetRecords == {
    [name |-> Str(<<"T">>), diameter |-> Str(<<"1", "0">>), rotation_period |-> Str(<<"2", "3">>),
     population |-> Str(unknown), surface_water |-> Str(<<"1">>), url |-> Str(<<"x", "/", "9", "/">>)],
    [name |-> Str(<<"A">>), diameter |-> Str(<<"n", "o", "n", "e">>), rotation_period |-> Str(<<"n", "/", "a">>),
     population |-> Str(<<"2">>), surface_water |-> Str(<<"N", "/", "A">>), url |-> Str(<<"x", "/", "1", "/">>)]}

MalformedPlanets == {
    [name |-> Str(<<"Y">>), diameter |-> Str(<<"1">>), rotation_period |-> Str(<<"2">>),
     population |-> Missing, surface_water |-> Str(<<"8">>), url |-> Str(<<"x", "/", "3", "/">>)]}

SpeciesRecords == {
    [name |-> Str(<<"H">>), classification |-> Str(<<"m">>), designation |-> Str(<<"s">>),
     average_height |-> Str(<<"1", "8", "0">>), average_lifespan |-> Str(<<"1", "2", "0">>),
     url |-> Str(<<"x", "/", "5", "/">>)],
    [name |-> Str(<<"D">>), classification |-> Str(<<"n", "o", "n", "e">>), designation |-> Str(<<"s">>),
     average_height |-> Str(<<"n", "/", "a">>), average_lifespan |-> Str(unknown),
     url |-> Str(<<"x", "/", "1", "/">>)]}

MalformedSpecies == {
    [name |-> Str(<<"W">>), classification |-> Str(<<"m">>), designation |-> Missing,
     average_height |-> Str(<<"2">>), average_lifespan |-> Str(<<"4">>),
     url |-> Str(<<"x", "/", "3", "/">>)]}

Records == <<PeopleRecords, PlanetRecords, SpeciesRecords>>

Malformed == <<MalformedPeople, MalformedPlanets, MalformedSpecies>>

SeqsUpTo(S, k) == UNION {[1..j -> S] : j \in 0..k}

(* --------------------------------------------------------------- get_data *)

\* the next field of a page: null, the URL of the following page, or an empty string
NextValues(page) == {None} \cup (IF page < MaxPages THEN {PageUrl(page + 1), Str(<<>>)} ELSE {})

\* the results of a page: well-formed records, or well-formed records and then a
\* malformed one (the for loop reads nothing after the record it fails on)
ResultLists(kind, room) ==
    SeqsUpTo(Records[kind], room)
    \cup {Append(rs, bad) : rs \in SeqsUpTo(Records[kind], room - 1), bad \in Malformed[kind]}

\* what the upstream does with a request: the request fails in transport, the
\* body is not JSON, or the body is a JSON object (next and results may be absent)
Replies(kind, page, room) ==
    {[status |-> "transport", next |-> Missing, has_results |-> FALSE, results |-> <<>>],
     [status |-> "nonjson", next |-> Missing, has_results |-> FALSE, results |-> <<>>]}
    \cup
    {[status |-> "json", next |-> Missing, has_results |-> TRUE, results |-> <<>>]}
    \cup
    {[status |-> "json", next |-> nx, has_results |-> FALSE, results |-> <<>>] : nx \in NextValues(page)}
    \cup
    {[status |-> "json", next |-> nx, has_results |-> TRUE, results |-> rs] :
        nx \in NextValues(page), rs \in ResultLists(kind, room)}

\* get_data: a request is issued only for a true api_url; the outcome is the parsed
\* object (exc = "none"), None for no URL, or the exception of requests.get / .json()
get_data(url, reply) ==
    IF Truthy(url)
    THEN [requested |-> TRUE,
          exc |-> CASE reply.status = "transport" -> "ConnectionError"
                    [] reply.status = "nonjson" -> "JSONDecodeError"
                    [] OTHER -> "none",
          isNone |-> FALSE,
          data |-> reply]
    ELSE [requested |-> FALSE, exc |-> "none", isNone |-> TRUE, data |-> reply]

(* ------------------------------------------------------------ row builders *)

\* obj[key] on a parsed JSON object
Item(obj, key) == IF obj[key] = Missing THEN KeyError ELSE obj[key]

\* f(obj[key]) where the subscript may raise
AgeOf(obj) == LET v == Item(obj, "birth_year") IN IF IsRaise(v) THEN v ELSE calculate_age(v)

MassOf(obj) == LET v == Item(obj, "mass") IN IF IsRaise(v) THEN v ELSE process_mass(v)

IdOf(obj, key) == LET v == Item(obj, key) IN IF IsRaise(v) THEN v ELSE extract_id(v)

person_row(person) ==
    <<Item(person, "name"), AgeOf(person), Item(person, "eye_color"), Item(person, "gender"),
      Item(person, "height"), MassOf(person), IdOf(person, "homeworld"), IdOf(person, "species")>>

planet_row(id, planet) ==
    <<IntV(id), Item(planet, "name"), Item(planet, "diameter"), Item(planet, "rotation_period"),
      Item(planet, "population"), Item(planet, "surface_water")>>

species_row(id, species) ==
    <<IntV(id), Item(species, "name"), Item(species, "classification"), Item(species, "designation"),
      Item(species, "average_height"), Item(species, "average_lifespan")>>

build_row(kind, id, obj) ==
    CASE kind = 1 -> person_row(obj)
      [] kind = 2 -> planet_row(id, obj)
      [] OTHER -> species_row(id, obj)

\* the exception a row's construction raises: that of its first raising cell
RowExc(row) ==
    LET bad == {i \in 1..Len(row) : IsRaise(row[i])}
    IN  IF bad = {} THEN "none" ELSE row[CHOOSE i \in bad : \A k \in bad : i <= k].t

\* the counter after a row is appended: people rows carry no counter
next_id(kind, id) == IF kind = 1 THEN id ELSE id + 1

\* the for loop over data['results'] from record i on: rows appended and id
\* incremented per record, stopping at the first record whose row raises
RECURSIVE for_results(_, _, _, _, _)
for_results(kind, results, i, acc, id) ==
    IF i > Len(results) THEN [rows |-> acc, id |-> id, exc |-> "none"]
    ELSE LET row == build_row(kind, id, results[i])
         IN  IF RowExc(row) # "none" THEN [rows |-> acc, id |-> id, exc |-> RowExc(row)]
             ELSE for_results(kind, results, i + 1, Append(acc, row), next_id(kind, id))

(* --------------------------------------------------------------- csv.writer *)

\* a cell as csv.writer writes it: None as the empty string, an int in decimal
\* (the quoting of a cell that holds a delimiter does not change the cell's value)
csv_cell(v) ==
    CASE v.t = "none" -> <<>>
      [] v.t = "int" -> IntToStr(v.n)
      [] OTHER -> v.s

csv_row(row) == [i \in 1..Len(row) |-> csv_cell(row[i])]

csv_rows(data) == [r \in 1..Len(data) |-> csv_row(data[r])]

\* what a file holds before the run
OldFile == <<<<<<"o", "l", "d">>>>>>

(* ------------------------------------------------- the extraction blocks *)

ProgInit ==
    /\ block = 1
    /\ pc = "start"
    /\ api_url = None
    /\ ident = 0
    /\ rows_data = [k \in 1..3 |-> <<>>]
    /\ served = <<>>
    /\ requests = <<>>
    /\ files = [k \in 1..3 |-> OldFile]
    /\ printed = <<>>
    /\ error = "none"

\* remove_unkown called after the file is written instead of before
next_pc_scrub_after_write(p) ==
    CASE p = "start" -> "loop"
      [] p = "loop" -> "open"
      [] p = "open" -> "header"
      [] p = "header" -> "rows"
      [] p = "rows" -> "scrub"
      [] OTHER -> "print"

\* the file opened and its header written before the listing is fetched
next_pc_open_first(p) ==
    CASE p = "start" -> "open"
      [] p = "open" -> "header"
      [] p = "header" -> "loop"
      [] p = "loop" -> "scrub"
      [] p = "scrub" -> "rows"
      [] OTHER -> "print"

\* the statement that follows a finished one, in the module's textual order: the
\* block's opening assignments, the while loop, remove_unkown, open, writerow,
\* writerows, print
next_pc(p) ==
    CASE p = "start" -> "loop"
      [] p = "loop" -> "scrub"
      [] p = "scrub" -> "open"
      [] p = "open" -> "header"
      [] p = "header" -> "rows"
      [] OTHER -> "print"

\* an exception nothing catches ends the process
Crash(exc) ==
    /\ pc' = "crashed"
    /\ error' = exc

\* the species block without its own "id = 1"
start_id_no_reset(kind, id) == IF kind = 2 THEN 1 ELSE id

\* the counter a block starts with: planets and species assign id = 1, people none
start_id(kind, id) == IF kind = 1 THEN id ELSE 1

\* the assignments that open a block: the listing URL, the empty row list, the counter
StartBlock ==
    /\ pc = "start"
    /\ api_url' = api_url_start[block]
    /\ rows_data' = [rows_data EXCEPT ![block] = <<>>]
    /\ ident' = start_id(block, ident)
    /\ served' = <<>>
    /\ requests' = <<>>
    /\ pc' = next_pc(pc)
    /\ UNCHANGED <<block, files, printed, error, fnvars>>

\* "while api_url:" in place of "while api_url is not None:"
loop_continues_truthy(url) == Truthy(url)

\* "while True:" in place of "while api_url is not None:"
loop_continues_always(url) == TRUE

\* the loop test of "while api_url is not None"
loop_continues(url) == url # None

\* one pass of the while loop: get_data, data['next'], the for loop over data['results']
LoopIteration ==
    /\ pc = "loop"
    /\ loop_continues(api_url)
    /\ \E reply \in Replies(block, Len(requests) + 1, MaxRows - Len(rows_data[block])) :
        LET got == get_data(api_url, reply)
            body == for_results(block, reply.results, 1, rows_data[block], ident)
        IN  /\ requests' = IF got.requested THEN Append(requests, api_url) ELSE requests
            /\ IF got.exc # "none"
                  THEN Crash(got.exc) /\ UNCHANGED <<api_url, ident, rows_data, served>>
               ELSE IF got.isNone
                  THEN Crash("TypeError") /\ UNCHANGED <<api_url, ident, rows_data, served>>
               ELSE IF reply.next = Missing
                  THEN /\ Crash("KeyError")
                       /\ served' = Append(served, reply)
                       /\ UNCHANGED <<api_url, ident, rows_data>>
               ELSE IF ~reply.has_results
                  THEN /\ Crash("KeyError")
                       /\ served' = Append(served, reply)
                       /\ api_url' = reply.next
                       /\ UNCHANGED <<ident, rows_data>>
               ELSE /\ served' = Append(served, reply)
                    /\ api_url' = reply.next
                    /\ rows_data' = [rows_data EXCEPT ![block] = body.rows]
                    /\ ident' = body.id
                    /\ IF body.exc # "none" THEN Crash(body.exc) ELSE UNCHANGED <<pc, error>>
    /\ UNCHANGED <<block, files, printed, fnvars>>

\* the loop test fails: the block goes on to remove_unkown
ExitLoop ==
    /\ pc = "loop"
    /\ ~loop_continues(api_url)
    /\ pc' = next_pc(pc)
    /\ UNCHANGED <<block, api_url, ident, rows_data, served, requests, files, printed, error, fnvars>>

\* remove_unkown(people_data) and its two siblings
Scrub ==
    /\ pc = "scrub"
    /\ rows_data' = [rows_data EXCEPT ![block] = remove_unkown(@)]
    /\ pc' = next_pc(pc)
    /\ UNCHANGED <<block, api_url, ident, served, requests, files, printed, error, fnvars>>

\* open(name, 'w'): the file is truncated, or the open fails and the file is as it was
OpenFile ==
    /\ pc = "open"
    /\ \/ /\ files' = [files EXCEPT ![block] = <<>>]
          /\ pc' = next_pc(pc)
          /\ UNCHANGED error
       \/ /\ Crash("OSError")
          /\ UNCHANGED files
    /\ UNCHANGED <<block, api_url, ident, rows_data, served, requests, printed, fnvars>>

\* csv_writer.writerow(header)
WriteHeader ==
    /\ pc = "header"
    /\ \/ /\ files' = [files EXCEPT ![block] = Append(@, Header[block])]
          /\ pc' = next_pc(pc)
          /\ UNCHANGED error
       \/ /\ Crash("OSError")
          /\ UNCHANGED files
    /\ UNCHANGED <<block, api_url, ident, rows_data, served, requests, printed, fnvars>>

\* csv_writer.writerows(data) and the end of the with block; a failing write
\* leaves the rows written before it
WriteRows ==
    /\ pc = "rows"
    /\ \/ /\ files' = [files EXCEPT ![block] = @ \o csv_rows(rows_data[block])]
          /\ pc' = next_pc(pc)
          /\ UNCHANGED error
       \/ /\ \E j \in 0..(Len(rows_data[block]) - 1) :
                files' = [files EXCEPT ![block] = @ \o SubSeq(csv_rows(rows_data[block]), 1, j)]
          /\ Crash("OSError")
    /\ UNCHANGED <<block, api_url, ident, rows_data, served, requests, printed, fnvars>>

\* print("CSV file created: ..."), then the next block or the end of the module
PrintNotice ==
    /\ pc = "print"
    /\ printed' = Append(printed, Notice[block])
    /\ IF block < 3
          THEN block' = block + 1 /\ pc' = "start"
          ELSE block' = block /\ pc' = "exit"
    /\ UNCHANGED <<api_url, ident, rows_data, served, requests, files, error, fnvars>>

ProgNext ==
    \/ StartBlock
    \/ LoopIteration
    \/ ExitLoop
    \/ Scrub
    \/ OpenFile
    \/ WriteHeader
    \/ WriteRows
    \/ PrintNotice

Init ==
    /\ ProgInit
    /\ arg = None
    /\ ret = None

Next == ProgNext

Spec == Init /\ [][Next]_vars

\* the interpreter runs the module's statements one after another until it ends
FairSpec == Spec /\ WF_vars(Next)

(* --------------------------------------- the helper functions on their own *)

Strings(alphabet, k) == UNION {[1..j -> alphabet] : j \in 0..k}

\* a helper called once on an input drawn from a bounded set
FnInit(inputs) ==
    /\ block = 1
    /\ pc = "call"
    /\ api_url = None
    /\ ident = 0
    /\ rows_data = [k \in 1..3 |-> <<>>]
    /\ served = <<>>
    /\ requests = <<>>
    /\ files = [k \in 1..3 |-> OldFile]
    /\ printed = <<>>
    /\ error = "none"
    /\ arg \in inputs
    /\ ret = None

Returned ==
    /\ pc' = "return"
    /\ UNCHANGED <<block, api_url, ident, rows_data, served, requests, files, printed, error, arg>>

\* extract_id: reference strings, absent values and lists of them
IdAlphabet == {"/", "0", "1", "x", " ", "\n"}

IdListItems ==
    {None, Str(<<>>), Str(<<"/", "1", "/">>), Str(<<"x", "/", "1", "0", "/">>),
     Str(<<" ", "/", "0", "1", "/", " ">>), Str(<<"/", "1">>)}

IdInputs ==
    {None}
    \cup {Str(cs) : cs \in Strings(IdAlphabet, MaxUrlLen)}
    \cup {List(xs) : xs \in SeqsUpTo(IdListItems, 2)}

CallExtractId ==
    /\ pc = "call"
    /\ ret' = extract_id(arg)
    /\ Returned

IdInit == FnInit(IdInputs)

IdNext == CallExtractId

SpecId == IdInit /\ [][IdNext]_vars

\* calculate_age: absent, the tokens of the documentation, and every prefix over
\* a small alphabet followed by each of a few suffixes
AgeAlphabet == {"1", "4", "9", "-", "+", " ", "_", ".", "a"}

AgeSuffixes ==
    {<<>>, BBY, ABY, <<"b", "b", "y">>, <<"B", "Y">>, <<"B", "B", "Y", " ">>, <<"A", "B", "B">>}

AgeTokens ==
    {unknown, <<"U", "n", "k", "n", "o", "w", "n">>, <<"U", "N", "K", "N", "O", "W", "N">>,
     <<"a", "b", "c", "B", "B", "Y">>, <<"u", "n", "k", "n", "o", "w", "n", "B", "B", "Y">>,
     <<"1", "_", "9", "B", "B", "Y">>, <<"4", "1", ".", "9", "B", "B", "Y">>}

AgeInputs ==
    {None}
    \cup {Str(cs) : cs \in AgeTokens}
    \cup {Str(p \o sfx) : p \in Strings(AgeAlphabet, MaxPrefixLen), sfx \in AgeSuffixes}

CallCalculateAge ==
    /\ pc = "call"
    /\ ret' = calculate_age(arg)
    /\ Returned

AgeInit == FnInit(AgeInputs)

AgeNext == CallCalculateAge

SpecAge == AgeInit /\ [][AgeNext]_vars

\* process_mass, and the later remove_unkown over the row list that holds the result
MassAlphabet == {",", ".", "8", "n"}

MassInputs == Sentinels \cup {Str(cs) : cs \in Strings(MassAlphabet, MaxMassLen)}

CallProcessMass ==
    /\ pc = "call"
    /\ ret' = process_mass(arg)
    /\ Returned

ScrubMassRow ==
    /\ pc = "return"
    /\ rows_data' = [rows_data EXCEPT ![1] = remove_unkown(<<<<ret>>>>)]
    /\ pc' = "scrubbed"
    /\ UNCHANGED <<block, api_url, ident, served, requests, files, printed, error, fnvars>>

MassInit == FnInit(MassInputs)

MassNext ==
    \/ CallProcessMass
    \/ ScrubMassRow

SpecMass == MassInit /\ [][MassNext]_vars

\* remove_unkown: lists of rows of differing lengths and cell types, scrubbed twice
ScrubRowSet ==
    {<<>>,
     <<Str(unknown)>>,
     <<IntV(1), Str(<<"n", "o", "n", "e">>), Str(<<"U", "n", "k", "n", "o", "w", "n">>)>>,
     <<Str(<<"n", "/", "a">>), None, Str(<<"x">>)>>,
     <<Str(unknown), Str(unknown)>>,
     <<IntV(0), Str(<<"n", "o", "n", "e", "e">>), Str(<<"N", "/", "A">>), Str(<<>>)>>,
     <<Str(<<"n", "o", "n", "e">>), IntV(53)>>}

ScrubInputs == SeqsUpTo(ScrubRowSet, MaxScrubRows)

CallRemoveUnkown ==
    /\ pc = "call"
    /\ ret' = remove_unkown(arg)
    /\ Returned

CallRemoveUnkownAgain ==
    /\ pc = "return"
    /\ rows_data' = [rows_data EXCEPT ![1] = remove_unkown(ret)]
    /\ pc' = "scrubbed"
    /\ UNCHANGED <<block, api_url, ident, served, requests, files, printed, error, fnvars>>

ScrubInit == FnInit(ScrubInputs)

ScrubNext ==
    \/ CallRemoveUnkown
    \/ CallRemoveUnkownAgain

SpecScrub == ScrubInit /\ [][ScrubNext]_vars

(* ------------------------------------------------ properties of the helpers *)

SentinelTexts == {unknown, <<"n", "o", "n", "e">>, <<"n", "/", "a">>}

IsSentinelCell(v) == v.t = "str" /\ v.s \in SentinelTexts

RECURSIVE Pow10(_)
Pow10(k) == IF k = 0 THEN 1 ELSE 10 * Pow10(k - 1)

\* the characters of cs that remain once leading and trailing whitespace is trimmed
Trimmed(cs) ==
    LET inked == {i \in 1..Len(cs) : cs[i] \notin Whitespace}
    IN  IF inked = {} THEN <<>>
        ELSE SubSeq(cs, CHOOSE i \in inked : \A k \in inked : i <= k,
                        CHOOSE i \in inked : \A k \in inked : i >= k)

\* the decimal value of the digits of cs, other characters skipped
DecimalValue(cs) ==
    LET at == {i \in 1..Len(cs) : cs[i] \in Digits}
        weight(i) == Pow10(Cardinality({k \in at : k > i}))
        RECURSIVE Sum(_)
        Sum(S) == IF S = {} THEN 0 ELSE LET i == CHOOSE x \in S : TRUE
                                        IN  DigitVal[cs[i]] * weight(i) + Sum(S \ {i})
    IN  Sum(at)

\* cs ends in "/<digits>/" with k digits
EndsInIdGroup(cs, k) ==
    /\ k >= 1
    /\ Len(cs) >= k + 2
    /\ cs[Len(cs)] = "/"
    /\ cs[Len(cs) - k - 1] = "/"
    /\ \A i \in (Len(cs) - k)..(Len(cs) - 1) : cs[i] \in Digits

HasIdGroup(cs) == \E k \in 1..Len(cs) : EndsInIdGroup(cs, k)

IdGroup(cs) ==
    LET k == CHOOSE j \in 1..Len(cs) : EndsInIdGroup(cs, j)
    IN  SubSeq(cs, Len(cs) - k, Len(cs) - 1)

\* what extract_reference_id is to return for a single reference or an absent value
ExpectedId(v) ==
    IF v.t = "str" /\ HasIdGroup(Trimmed(v.s)) THEN IntV(DecimalValue(IdGroup(Trimmed(v.s)))) ELSE None

\* C8: extract_id never raises on a reference string, an absent value or a list of
\* them; a string that, trimmed of whitespace, ends in "/<digits>/" gives the
\* trailing digit group as an integer; an empty list, an absent value and an empty
\* string give none; a non-empty list gives what its first item alone gives; every
\* other value gives none.
C8_ExtractId ==
    pc = "return" =>
        /\ ~IsRaise(ret)
        /\ arg.t = "str" /\ HasIdGroup(Trimmed(arg.s)) =>
               ret = IntV(DecimalValue(IdGroup(Trimmed(arg.s))))
        /\ arg \in {None, Str(<<>>), List(<<>>)} => ret = None
        /\ arg.t = "list" /\ arg.l # <<>> => ret = ExpectedId(arg.l[1])
        /\ arg.t = "str" /\ ~HasIdGroup(Trimmed(arg.s)) => ret = None

\* a list whose first item carries an id and whose second carries none has been read
C8_Witness ==
    /\ pc = "return"
    /\ arg.t = "list"
    /\ Len(arg.l) = 2
    /\ arg.l[1] = Str(<<" ", "/", "0", "1", "/", " ">>)
    /\ arg.l[2] = Str(<<"/", "1">>)
    /\ ret = IntV(1)

\* cs is an integer numeral as int() reads one: whitespace around, an optional
\* sign, then digits, single underscores allowed between two digits
IsNumeral(cs) ==
    LET t == Trimmed(cs)
        from == IF t # <<>> /\ t[1] \in {"+", "-"} THEN 2 ELSE 1
    IN  /\ from <= Len(t)
        /\ \A i \in from..Len(t) :
              \/ t[i] \in Digits
              \/ /\ t[i] = "_"
                 /\ i > from /\ i < Len(t)
                 /\ t[i - 1] \in Digits /\ t[i + 1] \in Digits

NumeralValue(cs) ==
    LET t == Trimmed(cs)
    IN  IF t[1] = "-" THEN 0 - DecimalValue(t) ELSE DecimalValue(t)

IsUnknownToken(cs) ==
    /\ Len(cs) = 7
    /\ \A i \in 1..7 : cs[i] = unknown[i] \/ (cs[i] \in DOMAIN UpperToLower /\ UpperToLower[cs[i]] = unknown[i])

PrefixOf(cs) == SubSeq(cs, 1, Len(cs) - 3)

SuffixOf(cs) == IF Len(cs) < 3 THEN <<>> ELSE SubSeq(cs, Len(cs) - 2, Len(cs))

\* C7: calculate_age with reference year 34 never raises on a string or an absent
\* input; absent, empty and "unknown" in any case give none; an integer numeral n
\* followed by "BBY" gives 34 + n, followed by "ABY" gives 34 - n; any other suffix
\* and any prefix that is no integer numeral (a decimal such as "41.9" included)
\* give none.
C7_CalculateAge ==
    pc = "return" =>
        /\ ~IsRaise(ret)
        /\ ret =
            IF arg = None \/ arg.s = <<>> \/ IsUnknownToken(arg.s) THEN None
            ELSE IF SuffixOf(arg.s) = <<"B", "B", "Y">> /\ IsNumeral(PrefixOf(arg.s))
                THEN IntV(34 + NumeralValue(PrefixOf(arg.s)))
            ELSE IF SuffixOf(arg.s) = <<"A", "B", "Y">> /\ IsNumeral(PrefixOf(arg.s))
                THEN IntV(34 - NumeralValue(PrefixOf(arg.s)))
            ELSE None

\* "41ABY" has been turned into -7
C7_Witness ==
    /\ pc = "return"
    /\ arg = Str(<<"4", "1", "A", "B", "Y">>)
    /\ ret = IntV(0 - 7)

\* C6: remove_unkown turns every cell that is exactly "unknown", "none" or "n/a" into
\* the absent marker and leaves every other cell, the number of rows, their order
\* and each row's length as they were; a second application changes nothing.
C6_RemoveUnkown ==
    /\ pc \in {"return", "scrubbed"} =>
        /\ Len(ret) = Len(arg)
        /\ \A r \in 1..Len(arg) :
              /\ Len(ret[r]) = Len(arg[r])
              /\ \A i \in 1..Len(arg[r]) :
                    ret[r][i] = IF IsSentinelCell(arg[r][i]) THEN None ELSE arg[r][i]
    /\ pc = "scrubbed" => rows_data[1] = ret

\* two rows, one holding "none" and a differently-cased "Unknown", scrubbed twice
C6_Witness ==
    /\ pc = "scrubbed"
    /\ Len(arg) = 2
    /\ arg[1] = <<IntV(1), Str(<<"n", "o", "n", "e">>), Str(<<"U", "n", "k", "n", "o", "w", "n">>)>>
    /\ arg[2] = <<Str(<<"n", "/", "a">>), None, Str(<<"x">>)>>
    /\ ret[1] = <<IntV(1), None, Str(<<"U", "n", "k", "n", "o", "w", "n">>)>>
    /\ ret[2] = <<None, None, Str(<<"x">>)>>

\* C9: process_mass returns a sentinel as it is, and any other string with each
\* comma turned into a period and nothing else, the length included, changed; a
\* sentinel mass thus reaches the row as it was and the later remove_unkown turns it
\* into the absent marker.
C9_ProcessMass ==
    /\ pc \in {"return", "scrubbed"} =>
        /\ ret.t = "str"
        /\ Len(ret.s) = Len(arg.s)
        /\ IsSentinelCell(arg) => ret = arg
        /\ \A i \in 1..Len(arg.s) : ret.s[i] = IF arg.s[i] = "," THEN "." ELSE arg.s[i]
    /\ pc = "scrubbed" /\ IsSentinelCell(arg) => rows_data[1] = <<<<None>>>>
    /\ pc = "scrubbed" /\ ~IsSentinelCell(arg) => rows_data[1] = <<<<ret>>>>

\* a mass with two commas has been normalised and scrubbed
C9_Witness ==
    /\ pc = "scrubbed"
    /\ arg = Str(<<",", "8", ",">>)
    /\ ret = Str(<<".", "8", ".">>)

(* ------------------------------------------------ properties of the blocks *)

\* the resource objects of the pages served to the current loop, in page order
RECURSIVE PageRecords(_)
PageRecords(pages) ==
    IF pages = <<>> THEN <<>>
    ELSE PageRecords(SubSeq(pages, 1, Len(pages) - 1)) \o pages[Len(pages)].results

LastPage == served[Len(served)]

\* every record of the page can be turned into a row
Buildable(page) ==
    /\ page.has_results
    /\ \A j \in 1..Len(page.results) : RowExc(build_row(block, 1, page.results[j])) = "none"

LoopErrors == {"ConnectionError", "JSONDecodeError", "KeyError", "TypeError", "AttributeError"}

\* the file of block k holds its header and one line per row of the block
Complete(k) == files[k] = <<Header[k]>> \o csv_rows(rows_data[k])

C1_Inv ==
    /\ pc \in {"loop", "scrub"} =>
        /\ requests = [i \in 1..Len(served) |-> PageUrl(i)]
        /\ Len(rows_data[block]) = Len(PageRecords(served))
        /\ \A k \in 1..Len(rows_data[block]) :
              rows_data[block][k] = build_row(block, k, PageRecords(served)[k])
    /\ pc = "scrub" =>
        /\ served # <<>>
        /\ LastPage.next = None
        /\ \A i \in 1..(Len(served) - 1) : served[i].next = PageUrl(i + 1)
    /\ pc \in {"scrub", "open", "header", "rows", "print", "exit"} =>
        /\ Len(requests) = Len(served)
        /\ LastPage.next = None

\* C1: over a finite chain of pages of which only the last has a null next, each
\* pagination loop ends, issues exactly one request per page and none after the
\* page whose next is null, and accumulates one row per record in the order of the
\* pages and of the records within each page.
C1_Pagination ==
    /\ []C1_Inv
    /\ [][(pc = "loop" /\ api_url = None) => (pc' = "scrub" /\ requests' = requests)]_vars
    /\ (pc = "loop") ~> (pc # "loop")

\* the species loop has ended after two pages of one record each
C1_Witness ==
    /\ block = 3
    /\ pc = "scrub"
    /\ Len(served) = 2
    /\ Len(served[1].results) = 1
    /\ Len(served[2].results) = 1
    /\ served[1].results # served[2].results
    /\ Len(requests) = 2

\* C2 as stated: a page whose next is null or absent ends the loop without error.
C2_Original ==
    (pc # "start" /\ served # <<>> /\ LastPage.next \in {None, Missing} /\ Buildable(LastPage))
        => error \notin LoopErrors

C2_Inv ==
    (pc # "start" /\ served # <<>>) =>
        /\ (LastPage.next = None /\ Buildable(LastPage)) =>
              /\ error \notin LoopErrors
              /\ pc = "loop" => api_url = None
        /\ LastPage.next = Missing => (pc = "crashed" /\ error = "KeyError")
        /\ LastPage.next \in {None, Missing} => Len(requests) = Len(served)

C2_Step ==
    /\ (pc = "loop" /\ api_url = None) => (pc' = "scrub" /\ requests' = requests)
    /\ pc = "scrub" => (pc' = "open" /\ requests' = requests)

\* C2, amended: a page whose next is null ends the loop without error and the block
\* goes on to the scrub and the write; a page that has no next at all ends the run
\* with a KeyError; in both cases no further request is issued.
C2_Amended ==
    /\ []C2_Inv
    /\ [][C2_Step]_vars

\* the second page of a listing came without a next field and the run has ended
C2_Witness ==
    /\ pc = "crashed"
    /\ error = "KeyError"
    /\ Len(served) = 2
    /\ LastPage.next = Missing
    /\ Len(requests) = 2

PhaseSteps ==
    {<<"start", "loop">>, <<"loop", "loop">>, <<"loop", "scrub">>, <<"scrub", "open">>,
     <<"open", "header">>, <<"header", "rows">>, <<"rows", "print">>}

C3_Step ==
    /\ \/ block' = block /\ <<pc, pc'>> \in PhaseSteps
       \/ block' = block /\ pc \in {"loop", "open", "header", "rows"} /\ pc' = "crashed"
       \/ block < 3 /\ block' = block + 1 /\ pc = "print" /\ pc' = "start"
       \/ block = 3 /\ block' = 3 /\ pc = "print" /\ pc' = "exit"
    /\ (requests' # requests /\ requests' # <<>>) =>
          /\ pc = "loop"
          /\ \A k \in 1..(block - 1) : Complete(k) /\ printed[k] = Notice[k]
    /\ rows_data' # rows_data => pc \in {"start", "loop", "scrub"}
    /\ files' # files =>
          /\ pc \in {"open", "header", "rows"}
          /\ \A k \in 1..3 : k # block => files'[k] = files[k]
    /\ printed' # printed => (pc = "print" /\ printed' = Append(printed, Notice[block]))

C3_Inv ==
    /\ Len(printed) = (IF pc = "exit" THEN 3 ELSE block - 1)
    /\ \A k \in 1..Len(printed) : printed[k] = Notice[k] /\ Complete(k)

\* C3: each block runs its phases in the order paginate, scrub, write, report, none
\* repeated or skipped, and the blocks run in the order people, planets, species:
\* no request of a block is issued before the files of the blocks before it are
\* written and reported.
C3_Phases ==
    /\ [][C3_Step]_vars
    /\ []C3_Inv

\* the run has ended with all three notices printed
C3_Witness ==
    /\ pc = "exit"
    /\ printed = Notice
    /\ \A k \in 1..3 : Len(files[k]) = 3

\* C4: the k-th row of planets and of species carries id k, over page boundaries
\* and whatever the records hold, and the species ids start again at 1.
C4_SequentialIds ==
    /\ \A b \in {2, 3} : \A k \in 1..Len(rows_data[b]) : rows_data[b][k][1] = IntV(k)
    /\ (block \in {2, 3} /\ pc \in {"loop", "scrub"}) => ident = Len(rows_data[block]) + 1
    /\ pc = "exit" => \A b \in {2, 3} : \A k \in 2..Len(files[b]) : files[b][k][1] = IntToStr(k - 1)

\* species rows 1 and 2 came from two pages, after a planets listing of one record
C4_Witness ==
    /\ block = 3
    /\ pc = "scrub"
    /\ Len(served) = 2
    /\ Len(served[1].results) = 1
    /\ Len(rows_data[3]) = 2
    /\ Len(rows_data[2]) = 1
    /\ rows_data[3][2][1] = IntV(2)

NameColumn == <<1, 2, 2>>

luke == [name |-> Str(<<"L">>), birth_year |-> Str(<<"1", "9", "B", "B", "Y">>),
         eye_color |-> Str(<<"U", "n", "k", "n", "o", "w", "n">>), gender |-> Str(<<"m">>),
         height |-> Str(<<"1", "7", "2">>), mass |-> Str(<<"8", "4", ",", "5">>),
         homeworld |-> Str(<<"x", "/", "1", "/">>),
         species |-> List(<<Str(<<"x", "/", "2", "/">>), Str(<<"x", "/", "3", "/">>)>>)]

\* C5: when a block has written its file, the file is the header followed by one
\* line per upstream record in page order, no cell of which is "unknown", "none"
\* or "n/a"; a person born "19BBY" on ".../1/" has age 53 and homeworld_id 1, one
\* born "unknown" has an empty age.
C5_OutputFile ==
    /\ pc \in {"print", "exit"} =>
        LET recs == PageRecords(served)
            file == files[block]
        IN  /\ Len(file) = Len(recs) + 1
            /\ file[1] = Header[block]
            /\ \A j \in 1..Len(recs) :
                  /\ Len(file[j + 1]) = Len(Header[block])
                  /\ \A c \in 1..Len(file[j + 1]) : file[j + 1][c] \notin SentinelTexts
                  /\ file[j + 1][NameColumn[block]] = recs[j].name.s
                  /\ (block = 1 /\ recs[j].birth_year = Str(<<"1", "9", "B", "B", "Y">>)) =>
                        file[j + 1][2] = <<"5", "3">>
                  /\ (block = 1 /\ recs[j].homeworld = Str(<<"x", "/", "1", "/">>)) =>
                        file[j + 1][7] = <<"1">>
                  /\ (block = 1 /\ recs[j].birth_year = Str(unknown)) => file[j + 1][2] = <<>>
    /\ pc = "exit" =>
        \A k \in 1..3 :
            /\ Len(files[k]) = Len(rows_data[k]) + 1
            /\ files[k][1] = Header[k]
            /\ \A j \in 2..Len(files[k]) : \A c \in 1..Len(files[k][j]) : files[k][j][c] \notin SentinelTexts

\* people.csv written from two pages: a person born 19BBY, then one born "unknown"
C5_Witness ==
    /\ block = 1
    /\ pc = "print"
    /\ Len(served) = 2
    /\ served[1].results = <<luke>>
    /\ Len(served[2].results) = 1
    /\ served[2].results[1].birth_year = Str(unknown)
    /\ Len(files[1]) = 3
    /\ files[1][2][2] = <<"5", "3">>
    /\ files[1][2][7] = <<"1">>
    /\ files[1][3][2] = <<>>

C10_Inv ==
    (pc = "crashed" /\ error \in {"ConnectionError", "JSONDecodeError", "KeyError"}) =>
        /\ \A k \in block..3 : files[k] = OldFile
        /\ \A k \in 1..(block - 1) : Complete(k)
        /\ printed = [k \in 1..(block - 1) |-> Notice[k]]

\* C10: when fetching or indexing a page of a block fails, the run stops at once:
\* nothing happens after it, no notice is printed for the block or a later one,
\* the files of the block and of the later ones hold what they held before the
\* run, and the files of the earlier blocks are complete.
C10_FetchFailure ==
    /\ []C10_Inv
    /\ [][pc # "crashed"]_vars

\* the planets listing came without results after people.csv was written
C10_Witness ==
    /\ pc = "crashed"
    /\ block = 2
    /\ error = "KeyError"
    /\ ~LastPage.has_results
    /\ Len(files[1]) = 3
    /\ files[2] = OldFile

====
